---- MODULE Spec2Model ----
(***************************************************************************)
(* Model of Scripts/sync-project.py: the scan of Soju/ for Swift files,    *)
(* the derivation of identifiers, the group tree, the synthesis of         *)
(* project.pbxproj and the steps of main() (scan, generate, write, build,  *)
(* exit status); and of Scripts/add-files-to-xcode.py: the edits it makes  *)
(* to the text of project.pbxproj and the steps of its main().             *)
(*                                                                         *)
(* Python strings are sequences of one-character strings; they are ordered *)
(* by code point as Python orders them.  A generated manifest is kept as   *)
(* its sections, each a sequence of entries in the order the text holds    *)
(* them; the children list of a group is kept token by token (entry,       *)
(* comma, line break), since the code builds it by joining strings.        *)
(***************************************************************************)
EXTENDS Integers, Sequences, FiniteSets, TLC

VARIABLES
    sojuExists,     \* SOJU_DIR exists on disk
    fs,             \* the files below SOJU_DIR, each the parts of its path from PROJECT_ROOT
    projDirExists,  \* the directory Soju.xcodeproj of PROJECT_FILE exists
    manifest,       \* content of PROJECT_FILE on disk (NoFile when absent)
    syncedTree,     \* history: the paths the manifest on disk was generated from
    pc,             \* position of the process in main()
    files,          \* local files of main()
    content,        \* local content of main()
    before,         \* history: content of PROJECT_FILE when the write of this run began
    rerun,          \* history: this run wrote, and scanned the paths of syncedTree
    writes,         \* number of writes to PROJECT_FILE by the current process
    buildRan,       \* subprocess.run returned a result
    returncode,     \* result.returncode
    status          \* exit status of the process

\* add-files-to-xcode.py
VARIABLES
    projectFile,      \* project_file on disk: whether it exists, and its text
    addPc,            \* position of the process in main()
    addContent,       \* local content of main()
    original_content, \* local original_content of main()
    addIndex,         \* index into files_to_add of the next iteration of the loop
    all_success,      \* local all_success of main()
    addWrites,        \* number of writes to project_file by the current process
    addStatus,        \* exit status of the process
    runs              \* history: number of runs of the script that have ended

syncVars == <<sojuExists, fs, projDirExists, manifest, syncedTree, pc, files,
              content, before, rerun, writes, buildRan, returncode, status>>

addVars == <<projectFile, addPc, addContent, original_content, addIndex,
             all_success, addWrites, addStatus, runs>>

vars == <<syncVars, addVars>>

\* Largest number of files held below SOJU_DIR at once.
MaxFiles == 3

\* Number of runs of add-files-to-xcode.py in a row.
MaxRuns == 2

---------------------------------------------------------------------------
(* Strings *)

\* The printable ASCII characters in code-point order, from 32 (space); the
\* quote characters and the backslash, which no name here holds, are spelled out.
Ascii ==
    <<" ", "!", "QUOTE", "#", "$", "%", "&", "APOSTROPHE", "(", ")", "*", "+", ",", "-", ".", "/",
      "0", "1", "2", "3", "4", "5", "6", "7", "8", "9", ":", ";", "<", "=", ">", "?",
      "@", "A", "B", "C", "D", "E", "F", "G", "H", "I", "J", "K", "L", "M", "N", "O",
      "P", "Q", "R", "S", "T", "U", "V", "W", "X", "Y", "Z", "[", "BACKSLASH", "]", "^", "_",
      "BACKTICK", "a", "b", "c", "d", "e", "f", "g", "h", "i", "j", "k", "l", "m", "n", "o",
      "p", "q", "r", "s", "t", "u", "v", "w", "x", "y", "z", "{", "|", "}", "~">>

Code == [c \in {Ascii[i] : i \in DOMAIN Ascii} |->
            31 + (CHOOSE i \in DOMAIN Ascii : Ascii[i] = c)]

Take(s, n) == SubSeq(s, 1, IF n < Len(s) THEN n ELSE Len(s))

Drop(s, n) == SubSeq(s, n + 1, Len(s))

\* a < b for Python str: by code point, a proper prefix first.
RECURSIVE StrLess(_, _)
StrLess(a, b) ==
    IF b = <<>> THEN FALSE
    ELSE IF a = <<>> THEN TRUE
    ELSE IF a[1] # b[1] THEN Code[a[1]] < Code[b[1]]
    ELSE StrLess(Tail(a), Tail(b))

StrLeq(a, b) == a = b \/ StrLess(a, b)

\* p < q for pathlib paths: the lists of parts compared part by part.
RECURSIVE PartsLess(_, _)
PartsLess(p, q) ==
    IF q = <<>> THEN FALSE
    ELSE IF p = <<>> THEN TRUE
    ELSE IF p[1] # q[1] THEN StrLess(p[1], q[1])
    ELSE PartsLess(Tail(p), Tail(q))

\* sep.join(parts)
RECURSIVE Join(_, _)
Join(parts, sep) ==
    IF parts = <<>> THEN <<>>
    ELSE IF Len(parts) = 1 THEN parts[1]
    ELSE parts[1] \o sep \o Join(Tail(parts), sep)

\* s.split(c) for a one-character separator c: always at least one part.
RECURSIVE Split(_, _)
Split(s, c) ==
    IF \A i \in DOMAIN s : s[i] # c THEN <<s>>
    ELSE LET k == CHOOSE i \in DOMAIN s :
                      s[i] = c /\ \A j \in 1..(i - 1) : s[j] # c
         IN <<Take(s, k - 1)>> \o Split(Drop(s, k), c)

Slash == <<"/">>

EndsWith(s, suffix) ==
    Len(s) >= Len(suffix) /\ Drop(s, Len(s) - Len(suffix)) = suffix

---------------------------------------------------------------------------
(* Identifiers *)

\* The values of FIXED all read A10000 xyz A000001 (16 characters).
Fixed16(mid) == <<"A", "1", "0", "0", "0", "0">> \o mid \o <<"A", "0", "0", "0", "0", "0", "1">>

FIXED ==
    [root_group          |-> Fixed16(<<"0", "0", "E">>),
     soju_group          |-> Fixed16(<<"0", "0", "F">>),
     products_group      |-> Fixed16(<<"0", "1", "0">>),
     soju_app            |-> Fixed16(<<"0", "0", "9">>),
     sojukit_ref         |-> Fixed16(<<"0", "0", "C">>),
     sojukit_build       |-> Fixed16(<<"0", "0", "7">>),
     sojukit_dep         |-> Fixed16(<<"0", "0", "8">>),
     target              |-> Fixed16(<<"0", "1", "1">>),
     target_config_list  |-> Fixed16(<<"0", "1", "2">>),
     sources_phase       |-> Fixed16(<<"0", "1", "3">>),
     frameworks_phase    |-> Fixed16(<<"0", "0", "D">>),
     resources_phase     |-> Fixed16(<<"0", "1", "4">>),
     project             |-> Fixed16(<<"0", "1", "5">>),
     project_config_list |-> Fixed16(<<"0", "1", "6">>),
     debug_project       |-> Fixed16(<<"0", "1", "7">>),
     release_project     |-> Fixed16(<<"0", "1", "8">>),
     debug_target        |-> Fixed16(<<"0", "1", "9">>),
     release_target      |-> Fixed16(<<"0", "1", "A">>)]

HexLower == <<"0", "1", "2", "3", "4", "5", "6", "7", "8", "9", "a", "b", "c", "d", "e", "f">>

UpperHex == {"0", "1", "2", "3", "4", "5", "6", "7", "8", "9", "A", "B", "C", "D", "E", "F"}

\* A 24-bit mix of the characters of s, standing for the bits of the digest.
RECURSIVE Mix(_, _)
Mix(s, h) ==
    IF s = <<>> THEN h
    ELSE Mix(Tail(s), ((h * 127) + Code[s[1]]) % 16777216)

Pow16 == <<1, 16, 256, 4096, 65536, 1048576>>

\* hashlib.md5(s.encode()).hexdigest(): 32 lowercase hexadecimal digits, a
\* function of s alone.  The bits of the digest are abstracted by Mix.
Md5Hex(s) ==
    LET h == Mix(s, 7)
    IN [i \in 1..32 |->
            HexLower[1 + (((h \div Pow16[1 + (i % 6)]) + 5 * i * (1 + (i \div 6))) % 16)]]

\* str.upper() on one character.
UpperChar(c) ==
    IF Code[c] >= Code["a"] /\ Code[c] <= Code["z"]
    THEN Ascii[Code[c] - 31 - 32]
    ELSE c

Upper(s) == [i \in DOMAIN s |-> UpperChar(s[i])]

\* The digest cut to 24 characters and left in lower case.
uuid_for_lower(prefix, path) == Take(Md5Hex(prefix \o <<":">> \o path), 24)

uuid_for(prefix, path) == Upper(Take(Md5Hex(prefix \o <<":">> \o path), 24))

---------------------------------------------------------------------------
(* The names the code and the tree use *)

DotSwift == <<".", "s", "w", "i", "f", "t">>

Soju == <<"S", "o", "j", "u">>

SojuKit == <<"S", "o", "j", "u", "K", "i", "t">>

SojuApp == <<"S", "o", "j", "u", ".", "a", "p", "p">>

Products == <<"P", "r", "o", "d", "u", "c", "t", "s">>

Views == <<"V", "i", "e", "w", "s">>

Settings == <<"S", "e", "t", "t", "i", "n", "g", "s">>

Models == <<"M", "o", "d", "e", "l", "s">>

Data == <<"D", "a", "t", "a">>

AppSwift == <<"A", "p", "p">> \o DotSwift

HomeSwift == <<"H", "o", "m", "e">> \o DotSwift

AboutSwift == <<"A", "b", "o", "u", "t">> \o DotSwift

ThemeSwift == <<"T", "h", "e", "m", "e">> \o DotSwift

ReadmeMd == <<"R", "E", "A", "D", "M", "E", ".", "m", "d">>

\* The files a tree may hold, each as the parts of its path from PROJECT_ROOT:
\* a file directly under Soju/, two files of one name in different groups,
\* two files in one group, files two levels down whose parent groups may
\* hold no file (one below the first and one below the second group of the
\* root), and a file that is no Swift file.
Universe ==
    {<<Soju, AppSwift>>,
     <<Soju, Views, HomeSwift>>,
     <<Soju, Views, AboutSwift>>,
     <<Soju, Views, Settings, ThemeSwift>>,
     <<Soju, Models, Data, HomeSwift>>,
     <<Soju, Views, ReadmeMd>>}

\* The orders in which the filesystem may enumerate the entries of a set.
Enumerations(S) ==
    {o \in [1..Cardinality(S) -> S] : \A i, j \in DOMAIN o : i # j => o[i] # o[j]}

---------------------------------------------------------------------------
(* scan_swift_files *)

\* Path.rglob("*.swift") keeps the entries whose last part ends in .swift.
Matches(p) == EndsWith(p[Len(p)], DotSwift)

\* Insertion by the base name of the path instead of by its parts.
RECURSIVE InsertPathByName(_, _)
InsertPathByName(sorted, x) ==
    IF sorted = <<>> THEN <<x>>
    ELSE IF StrLess(x[Len(x)], sorted[1][Len(sorted[1])]) THEN <<x>> \o sorted
    ELSE <<sorted[1]>> \o InsertPathByName(Tail(sorted), x)

RECURSIVE InsertPath(_, _)
InsertPath(sorted, x) ==
    IF sorted = <<>> THEN <<x>>
    ELSE IF PartsLess(x, sorted[1]) THEN <<x>> \o sorted
    ELSE <<sorted[1]>> \o InsertPath(Tail(sorted), x)

\* The paths in the order the filesystem enumerated them, not sorted.
EnumeratedPaths(ps) == ps

\* sorted(paths) of line 53.
RECURSIVE SortedPaths(_)
SortedPaths(ps) ==
    IF ps = <<>> THEN <<>>
    ELSE InsertPath(SortedPaths(SubSeq(ps, 1, Len(ps) - 1)), ps[Len(ps)])

\* One record of the list, from the path rel relative to PROJECT_ROOT.
FileRecord(rel) ==
    LET parts == SubSeq(rel, 2, Len(rel) - 1)
        group == IF parts # <<>> THEN Join(parts, Slash) ELSE <<>>
        path  == Join(rel, Slash)
    IN [name     |-> rel[Len(rel)],
        path     |-> path,
        group    |-> group,
        file_id  |-> uuid_for(<<"f", "i", "l", "e">>, path),
        build_id |-> uuid_for(<<"b", "u", "i", "l", "d">>, path)]

\* scan_swift_files() when rglob yields the matching entries in the order
\* `order`; a SOJU_DIR that does not exist yields nothing.
scan_swift_files(order) ==
    LET sorted == SortedPaths(order)
    IN [i \in DOMAIN sorted |-> FileRecord(sorted[i])]

---------------------------------------------------------------------------
(* build_group_tree *)

EmptyInfo == [files |-> <<>>, subgroups |-> {}]

\* tree[g] of the defaultdict, and tree.get(g, default).
Get(tree, g) == IF g \in DOMAIN tree THEN tree[g] ELSE EmptyInfo

Put(tree, g, info) ==
    [h \in (DOMAIN tree) \cup {g} |-> IF h = g THEN info ELSE tree[h]]

\* Only the edge from the direct parent to the group of the file, and none
\* for the ancestors above it.
RegisterDirectParent(tree, parts, i) ==
    IF parts = <<>> THEN tree
    ELSE LET parent == Join(SubSeq(parts, 1, Len(parts) - 1), Slash)
             info   == Get(tree, parent)
         IN Put(tree, parent, [info EXCEPT !.subgroups = @ \cup {Join(parts, Slash)}])

\* The loop of lines 79-82, from index i on.
RECURSIVE RegisterParents(_, _, _)
RegisterParents(tree, parts, i) ==
    IF i >= Len(parts) THEN tree
    ELSE LET parent == IF i # 0 THEN Join(SubSeq(parts, 1, i), Slash) ELSE <<>>
             child  == Join(SubSeq(parts, 1, i + 1), Slash)
             info   == Get(tree, parent)
         IN RegisterParents(
                Put(tree, parent, [info EXCEPT !.subgroups = @ \cup {child}]),
                parts, i + 1)

\* A variant of the loop body that lists every file in the root group.
RegisterFileAtRoot(tree, f) ==
    LET g     == f.group
        info  == Get(tree, <<>>)
        t1    == Put(tree, <<>>, [info EXCEPT !.files = Append(@, f)])
        parts == IF g # <<>> THEN Split(g, "/") ELSE <<>>
    IN RegisterParents(t1, parts, 0)

\* The body of the loop over files, for one file.
RegisterFile(tree, f) ==
    LET g     == f.group
        info  == Get(tree, g)
        t1    == Put(tree, g, [info EXCEPT !.files = Append(@, f)])
        parts == IF g # <<>> THEN Split(g, "/") ELSE <<>>
    IN RegisterParents(t1, parts, 0)

RECURSIVE build_group_tree(_)
build_group_tree(fl) ==
    IF fl = <<>> THEN <<>>
    ELSE RegisterFile(build_group_tree(SubSeq(fl, 1, Len(fl) - 1)), fl[Len(fl)])

---------------------------------------------------------------------------
(* generate_pbxproj *)

RECURSIVE InsertByName(_, _)
InsertByName(sorted, f) ==
    IF sorted = <<>> THEN <<f>>
    ELSE IF StrLess(f.name, sorted[1].name) THEN <<f>> \o sorted
    ELSE <<sorted[1]>> \o InsertByName(Tail(sorted), f)

\* The list in the order given, not sorted.
InInputOrder(fl) == fl

\* sorted(fl, key=lambda x: x["name"]): stable, so files of one name keep
\* the order they have in fl.
RECURSIVE SortedByName(_)
SortedByName(fl) ==
    IF fl = <<>> THEN <<>>
    ELSE InsertByName(SortedByName(SubSeq(fl, 1, Len(fl) - 1)), fl[Len(fl)])

\* sorted(S) for a set S of strings.
RECURSIVE SortedStrs(_)
SortedStrs(S) ==
    IF S = {} THEN <<>>
    ELSE LET m == CHOOSE x \in S : \A y \in S : StrLeq(x, y)
         IN <<m>> \o SortedStrs(S \ {m})

\* Lines 94-97: the PBXBuildFile entry of a file.
BuildLine(f) ==
    [id |-> f.build_id, name |-> f.name, phase |-> "Sources",
     refKey |-> "fileRef", ref |-> f.file_id, refName |-> f.name]

\* Lines 98-101: the static PBXBuildFile entry of the package.
StaticBuildLine ==
    [id |-> FIXED.sojukit_build, name |-> SojuKit, phase |-> "Frameworks",
     refKey |-> "productRef", ref |-> FIXED.sojukit_dep, refName |-> SojuKit]

build_lines(fl) ==
    LET s == SortedByName(fl)
    IN [i \in DOMAIN s |-> BuildLine(s[i])] \o <<StaticBuildLine>>

\* Lines 107-118: the PBXFileReference entry of a file; a file in a
\* subdirectory carries a name attribute.
RefLine(f) ==
    [id |-> f.file_id, comment |-> f.name, fileType |-> "sourcecode.swift",
     hasName |-> f.group # <<>>, name |-> IF f.group # <<>> THEN f.name ELSE <<>>,
     path |-> f.path, sourceTree |-> "SOURCE_ROOT"]

\* Lines 120-129: the two static PBXFileReference entries.
StaticRefLines ==
    <<[id |-> FIXED.soju_app, comment |-> SojuApp, fileType |-> "wrapper.application",
       hasName |-> FALSE, name |-> <<>>, path |-> SojuApp,
       sourceTree |-> "BUILT_PRODUCTS_DIR"],
      [id |-> FIXED.sojukit_ref, comment |-> SojuKit, fileType |-> "wrapper",
       hasName |-> TRUE, name |-> SojuKit, path |-> SojuKit,
       sourceTree |-> "<group>"]>>

ref_lines(fl) ==
    LET s == SortedByName(fl)
    IN [i \in DOMAIN s |-> RefLine(s[i])] \o StaticRefLines

\* The tokens of a children list between "children = (" and ");".
Child(id, name) == [tok |-> "child", id |-> id, name |-> name]

Comma == [tok |-> "comma", id |-> <<>>, name |-> <<>>]

NewLine == [tok |-> "newline", id |-> <<>>, name |-> <<>>]

\* ",\n".join(...) of line 178.
RECURSIVE JoinChildren(_)
JoinChildren(children) ==
    IF children = <<>> THEN <<>>
    ELSE IF Len(children) = 1 THEN <<children[1]>>
    ELSE <<children[1], Comma, NewLine>> \o JoinChildren(Tail(children))

\* Lines 182-184: children_str followed by the comma and the line break that
\* the template adds.
ChildrenText(children) == JoinChildren(children) \o <<Comma, NewLine>>

\* Lines 135-143: the overall project root group, its children written out.
RootGroupEntry ==
    [gid |-> FIXED.root_group, comment |-> <<>>, attr |-> "none", value |-> <<>>,
     children |-> <<Child(FIXED.sojukit_ref, SojuKit), Comma, NewLine,
                    Child(FIXED.soju_group, Soju), Comma, NewLine,
                    Child(FIXED.products_group, Products), Comma, NewLine>>]

\* Lines 146-153: the products group.
ProductsGroupEntry ==
    [gid |-> FIXED.products_group, comment |-> Products, attr |-> "name",
     value |-> Products,
     children |-> <<Child(FIXED.soju_app, SojuApp), Comma, NewLine>>]

\* s.split("/")[-1]
LastPart(s) == LET parts == Split(s, "/") IN parts[Len(parts)]

GroupPrefix == <<"g", "r", "o", "u", "p">>

\* The identifier a group is rendered and referred to with (lines 159-164, 172).
GroupId(gpath) == IF gpath = <<>> THEN FIXED.soju_group ELSE uuid_for(GroupPrefix, gpath)

\* Lines 156-187.
gen_group_entry(tree, gpath) ==
    LET info     == Get(tree, gpath)
        subs     == SortedStrs(info.subgroups)
        fls      == SortedByName(info.files)
        children == [i \in DOMAIN subs |-> Child(uuid_for(GroupPrefix, subs[i]), LastPart(subs[i]))]
                    \o [i \in DOMAIN fls |-> Child(fls[i].file_id, fls[i].name)]
    IN [gid      |-> IF gpath = <<>> THEN FIXED.soju_group ELSE uuid_for(GroupPrefix, gpath),
        comment  |-> IF gpath = <<>> THEN Soju ELSE LastPart(gpath),
        attr     |-> IF gpath = <<>> THEN "path" ELSE "name",
        value    |-> IF gpath = <<>> THEN Soju ELSE LastPart(gpath),
        children |-> ChildrenText(children)]

\* Lines 193-197: the entries add_subgroups(gpath) appends, and those of the
\* subgroups subs[i..] of one group.
\* The subgroups of the groups gs[i..], each list sorted, one after another.
RECURSIVE SubgroupsOfAll(_, _, _)
SubgroupsOfAll(tree, gs, i) ==
    IF i > Len(gs) THEN <<>>
    ELSE SortedStrs(Get(tree, gs[i]).subgroups) \o SubgroupsOfAll(tree, gs, i + 1)

\* The entries of the groups below gs level by level: all groups of one
\* depth before any group of the next.
RECURSIVE LevelEntries(_, _)
LevelEntries(tree, gs) ==
    LET subs == SubgroupsOfAll(tree, gs, 1)
    IN IF subs = <<>> THEN <<>>
       ELSE [i \in DOMAIN subs |-> gen_group_entry(tree, subs[i])]
            \o LevelEntries(tree, subs)

add_subgroups_by_level(tree, gpath) == LevelEntries(tree, <<gpath>>)

RECURSIVE add_subgroups(_, _)
RECURSIVE SubgroupEntries(_, _, _)
add_subgroups(tree, gpath) ==
    SubgroupEntries(tree, SortedStrs(Get(tree, gpath).subgroups), 1)

SubgroupEntries(tree, subs, i) ==
    IF i > Len(subs) THEN <<>>
    ELSE <<gen_group_entry(tree, subs[i])>> \o add_subgroups(tree, subs[i])
         \o SubgroupEntries(tree, subs, i + 1)

\* Lines 132-199.
group_lines(tree) ==
    <<RootGroupEntry, ProductsGroupEntry, gen_group_entry(tree, <<>>)>>
    \o add_subgroups(tree, <<>>)

\* The entry carrying the reference identifier of the file.
SourceFileEntryByRef(f) == [id |-> f.file_id, name |-> f.name, phase |-> "Sources"]

\* Line 204: the entry of a file in the files list of the sources phase.
SourceFileEntry(f) == [id |-> f.build_id, name |-> f.name, phase |-> "Sources"]

source_files(fl) ==
    LET s == SortedByName(fl)
    IN [i \in DOMAIN s |-> SourceFileEntry(s[i])]

\* Lines 208-526: the identifiers of FIXED that the fixed sections hold.
TemplateIds ==
    {FIXED.frameworks_phase, FIXED.sojukit_build, FIXED.target,
     FIXED.target_config_list, FIXED.sources_phase, FIXED.resources_phase,
     FIXED.sojukit_dep, FIXED.soju_app, FIXED.project, FIXED.project_config_list,
     FIXED.root_group, FIXED.products_group, FIXED.debug_project,
     FIXED.release_project, FIXED.debug_target, FIXED.release_target}

generate_pbxproj(fl) ==
    LET tree == build_group_tree(fl)
    IN [kind         |-> "pbxproj",
        build_lines  |-> build_lines(fl),
        ref_lines    |-> ref_lines(fl),
        group_lines  |-> group_lines(tree),
        source_files |-> source_files(fl),
        template     |-> TemplateIds]

---------------------------------------------------------------------------
(* The filesystem and the process *)

\* PROJECT_FILE does not exist.
NoFile == [kind |-> "absent"]

\* project_file of add-files-to-xcode.py does not exist.
NoProject == [exists |-> FALSE, text |-> <<>>]

\* The project file as written by hand, before the script first ran.
HandWritten == [kind |-> "handwritten"]

NoContent == [kind |-> "none"]

NotSynced == [known |-> FALSE, paths |-> {}]

\* The return codes of xcodebuild the model draws from: success, failure,
\* and the code of a failed build command.
ReturnCodes == {0, 1, 65}

\* str(rel) of every record of a file list.
PathsOf(fl) == {fl[i].path : i \in DOMAIN fl}

\* A status that ignores the return code.
ExitStatusZero(rc) == 0

\* Lines 553-562 with line 566: the status main() returns and sys.exit takes.
ExitStatus(rc) == IF rc = 0 THEN 0 ELSE 1

Init ==
    /\ sojuExists = TRUE
    /\ fs = {}
    /\ projDirExists = TRUE
    /\ manifest = HandWritten
    /\ syncedTree = NotSynced
    /\ pc = "idle"
    /\ files = <<>>
    /\ content = NoContent
    /\ before = NoFile
    /\ rerun = FALSE
    /\ writes = 0
    /\ buildRan = FALSE
    /\ returncode = 0
    /\ status = 0
    /\ projectFile = NoProject
    /\ addPc = "idle"
    /\ addContent = <<>>
    /\ original_content = <<>>
    /\ addIndex = 1
    /\ all_success = TRUE
    /\ addWrites = 0
    /\ addStatus = 0
    /\ runs = 0

Process == <<pc, files, content, before, rerun, writes, buildRan, returncode, status>>

\* Between runs a file appears below SOJU_DIR.
AddFile ==
    /\ pc = "idle"
    /\ sojuExists
    /\ Cardinality(fs) < MaxFiles
    /\ \E p \in Universe \ fs : fs' = fs \cup {p}
    /\ UNCHANGED <<sojuExists, projDirExists, manifest, syncedTree, Process>>
    /\ UNCHANGED addVars

\* Between runs a file below SOJU_DIR is deleted.
RemoveFile ==
    /\ pc = "idle"
    /\ \E p \in fs : fs' = fs \ {p}
    /\ UNCHANGED <<sojuExists, projDirExists, manifest, syncedTree, Process>>
    /\ UNCHANGED addVars

\* Between runs SOJU_DIR is removed with what it holds, or created empty.
ToggleSojuDir ==
    /\ pc = "idle"
    /\ sojuExists' = ~sojuExists
    /\ fs' = {}
    /\ UNCHANGED <<projDirExists, manifest, syncedTree, Process>>
    /\ UNCHANGED addVars

\* Between runs Soju.xcodeproj is removed with the project file, or created
\* empty.
ToggleProjectDir ==
    /\ pc = "idle"
    /\ projDirExists' = ~projDirExists
    /\ manifest' = NoFile
    /\ syncedTree' = NotSynced
    /\ UNCHANGED <<sojuExists, fs, Process>>
    /\ UNCHANGED addVars

\* Lines 530-536: main() scans.  rglob yields the matching entries in an
\* order of the filesystem's choosing, and nothing when SOJU_DIR is missing.
Scan ==
    /\ pc = "idle"
    /\ \E order \in Enumerations({p \in fs : Matches(p)}) :
           files' = scan_swift_files(order)
    /\ pc' = "generate"
    /\ UNCHANGED <<sojuExists, fs, projDirExists, manifest, syncedTree,
                   content, before, rerun, writes, buildRan, returncode, status>>
    /\ UNCHANGED addVars

\* Lines 539-541: main() generates the content and writes it.  write_text
\* raises FileNotFoundError when the directory of PROJECT_FILE is missing;
\* nothing catches it and the process ends with status 1.
GenerateAndWrite ==
    /\ pc = "generate"
    /\ content' = generate_pbxproj(files)
    /\ before' = manifest
    /\ \/ /\ projDirExists
          /\ manifest' = content'
          /\ writes' = writes + 1
          /\ rerun' = (syncedTree.known /\ syncedTree.paths = PathsOf(files))
          /\ syncedTree' = [known |-> TRUE, paths |-> PathsOf(files)]
          /\ pc' = "build"
          /\ UNCHANGED status
       \/ /\ ~projDirExists
          /\ status' = 1
          /\ pc' = "done"
          /\ UNCHANGED <<manifest, writes, rerun, syncedTree>>
    /\ UNCHANGED <<sojuExists, fs, projDirExists, files, buildRan, returncode>>
    /\ UNCHANGED addVars

\* Lines 545-551: main() runs xcodebuild and waits for it.  subprocess.run
\* raises FileNotFoundError when no xcodebuild is installed; nothing catches
\* it and the process ends with status 1.
Build ==
    /\ pc = "build"
    /\ \/ /\ \E rc \in ReturnCodes : returncode' = rc
          /\ buildRan' = TRUE
          /\ pc' = "exit"
          /\ UNCHANGED status
       \/ /\ status' = 1
          /\ pc' = "done"
          /\ UNCHANGED <<buildRan, returncode>>
    /\ UNCHANGED <<sojuExists, fs, projDirExists, manifest, syncedTree, files,
                   content, before, rerun, writes>>
    /\ UNCHANGED addVars

\* Lines 553-562 and 566: main() returns and the process exits with its value.
Exit ==
    /\ pc = "exit"
    /\ status' = ExitStatus(returncode)
    /\ pc' = "done"
    /\ UNCHANGED <<sojuExists, fs, projDirExists, manifest, syncedTree, files,
                   content, before, rerun, writes, buildRan, returncode>>
    /\ UNCHANGED addVars

\* The process is gone; its locals with it.
Terminate ==
    /\ pc = "done"
    /\ pc' = "idle"
    /\ files' = <<>>
    /\ content' = NoContent
    /\ before' = NoFile
    /\ rerun' = FALSE
    /\ writes' = 0
    /\ buildRan' = FALSE
    /\ returncode' = 0
    /\ status' = 0
    /\ UNCHANGED <<sojuExists, fs, projDirExists, manifest, syncedTree>>
    /\ UNCHANGED addVars

Next ==
    \/ AddFile
    \/ RemoveFile
    \/ ToggleSojuDir
    \/ ToggleProjectDir
    \/ Scan
    \/ GenerateAndWrite
    \/ Build
    \/ Exit
    \/ Terminate

Spec == Init /\ [][Next]_vars

---------------------------------------------------------------------------
(* Properties *)

Generated == content.kind = "pbxproj"

AfterWrite == pc \in {"build", "exit", "done"}

\* C1: when a run writes the manifest and the manifest on disk was generated
\* by an earlier run from the same set of files, the content on disk after
\* the write equals the content before it, whatever order the filesystem
\* enumerated the files in in either run.
C1_Idempotent == rerun => manifest = before

C1_Witness ==
    /\ rerun
    /\ pc = "done"
    /\ \E i, j \in DOMAIN files : i # j /\ files[i].name = files[j].name

\* C2: in a run where the newly generated content equals the content the
\* manifest file held, no write to the manifest file occurs.
C2_NoWriteWhenEqual == (AfterWrite /\ Generated /\ content = before) => writes = 0

\* In every file list the scan returns, the pair of group and name
\* determines the file: two files of one name in one group never occur.
ScanNamesUniqueInGroup ==
    \A i, j \in DOMAIN files :
        (files[i].group = files[j].group /\ files[i].name = files[j].name) => i = j

\* C4: a run that finds SOJU_DIR missing writes nothing, leaves the manifest
\* as it was and ends with a nonzero status.
C4_MissingRootAborts ==
    (~sojuExists /\ AfterWrite) =>
        /\ writes = 0
        /\ manifest = before
        /\ pc = "done" => status # 0

\* The group paths from "" down to g: every prefix of the parts of g.
Prefixes(g) ==
    LET parts == IF g = <<>> THEN <<>> ELSE Split(g, "/")
    IN [n \in 0..Len(parts) |-> Join(SubSeq(parts, 1, n), Slash)]

\* The child entries of a rendered group, in order.
ChildTokens(entry) == SelectSeq(entry.children, LAMBDA t : t.tok = "child")

\* The identifiers of the child entries of a rendered group.
ChildIds(entry) ==
    {entry.children[j].id :
         j \in {j \in DOMAIN entry.children : entry.children[j].tok = "child"}}

\* C5: for every file of the list and every prefix of its group path, the
\* tree of build_group_tree holds the prefix, the manifest renders a group
\* for it, and, for a proper prefix, both the tree and the rendered group
\* list the next longer prefix as a subgroup.
C5_GroupComplete ==
    Generated =>
        LET tree  == build_group_tree(files)
            lines == content.group_lines
        IN \A i \in DOMAIN files :
               LET pre == Prefixes(files[i].group)
               IN \A n \in DOMAIN pre :
                      /\ pre[n] \in DOMAIN tree
                      /\ \E k \in DOMAIN lines : lines[k].gid = GroupId(pre[n])
                      /\ (n + 1) \in DOMAIN pre =>
                             /\ pre[n + 1] \in tree[pre[n]].subgroups
                             /\ \E k \in DOMAIN lines :
                                    /\ lines[k].gid = GroupId(pre[n])
                                    /\ \E c \in DOMAIN lines[k].children :
                                           /\ lines[k].children[c].tok = "child"
                                           /\ lines[k].children[c].id = GroupId(pre[n + 1])

C5_Witness ==
    /\ Generated
    /\ \E i \in DOMAIN files :
           /\ DOMAIN Prefixes(files[i].group) = 0..2
           /\ \A j \in DOMAIN files : files[j].group # Prefixes(files[i].group)[1]

\* Every order of the records of a file list.
ListOrders(fl) == Enumerations({fl[i] : i \in DOMAIN fl})

\* The names of a sequence of entries are in non-decreasing order.
NamesAscend(entries) ==
    \A i \in 1..(Len(entries) - 1) : StrLeq(entries[i].name, entries[i + 1].name)

\* C6: for every permutation of the file list, the per-file entries of the
\* build-membership list, of the file-reference list and of the build-phase
\* list, and in every group rendered from the tree the subgroup children and
\* the file children, are each in non-decreasing order of name.
C6_Ordered ==
    pc = "build" =>
        \A fl \in ListOrders(files) :
            LET c       == generate_pbxproj(fl)
                fileIds == {fl[i].file_id : i \in DOMAIN fl}
            IN /\ NamesAscend(SubSeq(c.build_lines, 1, Len(c.build_lines) - 1))
               /\ NamesAscend([i \in 1..(Len(c.ref_lines) - 2) |->
                                   [name |-> c.ref_lines[i].comment]])
               /\ NamesAscend(c.source_files)
               /\ \A k \in 3..Len(c.group_lines) :
                      LET ch == ChildTokens(c.group_lines[k])
                      IN /\ NamesAscend(SelectSeq(ch, LAMBDA t : t.id \in fileIds))
                         /\ NamesAscend(SelectSeq(ch, LAMBDA t : t.id \notin fileIds))

C6_Witness ==
    /\ pc = "build"
    /\ \E i, j \in DOMAIN files : i # j /\ files[i].group = files[j].group
    /\ \E k \in 3..Len(content.group_lines) :
           Cardinality(ChildIds(content.group_lines[k])
                           \ {files[i].file_id : i \in DOMAIN files}) >= 2

\* C7: when the scan finds no file the manifest still holds the group of
\* the scanned subtree, and its children list is empty: no entry, no comma.
C7_EmptyRootGroupValid ==
    (Generated /\ files = <<>>) =>
        \E k \in DOMAIN content.group_lines :
            /\ content.group_lines[k].gid = FIXED.soju_group
            /\ content.group_lines[k].children = <<>>

\* Every identifier a manifest holds.
AllIds(c) ==
    {c.build_lines[i].id : i \in DOMAIN c.build_lines}
    \cup {c.build_lines[i].ref : i \in DOMAIN c.build_lines}
    \cup {c.ref_lines[i].id : i \in DOMAIN c.ref_lines}
    \cup {c.group_lines[i].gid : i \in DOMAIN c.group_lines}
    \cup UNION {ChildIds(c.group_lines[i]) : i \in DOMAIN c.group_lines}
    \cup {c.source_files[i].id : i \in DOMAIN c.source_files}
    \cup c.template

FixedIds == {FIXED[k] : k \in DOMAIN FIXED}

IsUpperHex(id) == \A i \in DOMAIN id : id[i] \in UpperHex

\* C8 as stated: every identifier of a generated manifest, derived or fixed,
\* is 24 uppercase hexadecimal characters.
C8_AllIds24 ==
    Generated => \A id \in AllIds(content) : Len(id) = 24 /\ IsUpperHex(id)

\* C8, amended: every identifier of a generated manifest is uppercase
\* hexadecimal; those taken from FIXED are 16 characters long and all others
\* (the ones uuid_for derives for files, build entries and groups) are 24.
C8_IdFormats ==
    Generated =>
        \A id \in AllIds(content) :
            /\ IsUpperHex(id)
            /\ Len(id) = IF id \in FixedIds THEN 16 ELSE 24

C8_Witness ==
    /\ Generated
    /\ \E i \in DOMAIN files :
           /\ files[i].group # <<>>
           /\ {files[i].file_id, files[i].build_id, GroupId(files[i].group)}
                  \subseteq (AllIds(content) \ FixedIds)

\* The number of entries of a sequence that satisfy P.
Count(entries, P(_)) == Cardinality({i \in DOMAIN entries : P(entries[i])})

\* C9: the build-membership list holds one entry per file and one static
\* entry for the package, the file-reference list one entry per file and two
\* static entries, and the build-phase list one entry per file, carrying the
\* build identifier of the file and never its reference identifier.
C9_Cardinality ==
    Generated =>
        /\ Len(content.build_lines) = Len(files) + 1
        /\ Len(content.ref_lines) = Len(files) + 2
        /\ Len(content.source_files) = Len(files)
        /\ Count(content.build_lines, LAMBDA e : e.refKey = "productRef") = 1
        /\ Count(content.build_lines, LAMBDA e : e.id = FIXED.sojukit_build) = 1
        /\ Count(content.ref_lines, LAMBDA e : e.id = FIXED.soju_app) = 1
        /\ Count(content.ref_lines, LAMBDA e : e.id = FIXED.sojukit_ref) = 1
        /\ \A i \in DOMAIN files :
               /\ Count(content.build_lines,
                        LAMBDA e : e.id = files[i].build_id /\ e.refKey = "fileRef"
                                   /\ e.ref = files[i].file_id) = 1
               /\ Count(content.ref_lines,
                        LAMBDA e : e.id = files[i].file_id /\ e.path = files[i].path) = 1
               /\ Count(content.source_files,
                        LAMBDA e : e.id = files[i].build_id /\ e.name = files[i].name) = 1
               /\ Count(content.source_files, LAMBDA e : e.id = files[i].file_id) = 0

C9_Witness ==
    /\ Generated
    /\ Len(files) >= 2
    /\ pc = "build"

\* C10: the build command starts only after the write has completed, the
\* manifest written stays on disk unaltered whatever the build returns, and
\* the exit status of the run is zero exactly when the build command
\* returned with return code zero.
C10_BuildAdvisory ==
    /\ (pc \in {"build", "exit"} \/ buildRan) => (writes = 1 /\ manifest = content)
    /\ (pc = "done" /\ writes = 1) => manifest = content
    /\ pc = "done" => (status = 0 <=> (buildRan /\ returncode = 0))

C10_Witness ==
    /\ pc = "done"
    /\ buildRan
    /\ returncode # 0
    /\ status # 0
    /\ writes = 1
    /\ manifest = content

\* C11 as stated: the list scan_swift_files returns is in non-decreasing
\* order of the base names of its files.
C11_ScanSortedByName == pc = "generate" => NamesAscend(files)

\* C11, amended: the list scan_swift_files returns is in strictly increasing
\* order of the paths of its files, compared part by part.
C11_ScanSortedByPath ==
    pc = "generate" =>
        \A i \in 1..(Len(files) - 1) :
            PartsLess(Split(files[i].path, "/"), Split(files[i + 1].path, "/"))

C11_Witness ==
    /\ pc = "generate"
    /\ Len(files) >= 3
    /\ \E i, j \in DOMAIN files : files[i].group # files[j].group
    /\ ~NamesAscend(files)

\* The group paths of a file list: the root "" and every prefix of the group
\* of every file.
AllGroups(fl) ==
    {<<>>} \cup UNION {{Prefixes(fl[i].group)[n] : n \in DOMAIN Prefixes(fl[i].group)} :
                        i \in DOMAIN fl}

\* The groups of fl that lie below g.
Descendants(fl, g) ==
    {h \in AllGroups(fl) :
        h # g /\ \E n \in DOMAIN Prefixes(h) : Prefixes(h)[n] = g}

\* The groups rendered from the tree, in the order the manifest holds them:
\* the entries after the two static groups.
Rendered(c) == SubSeq(c.group_lines, 3, Len(c.group_lines))

\* The positions at which group g is rendered.
Positions(c, g) == {k \in DOMAIN Rendered(c) : Rendered(c)[k].gid = GroupId(g)}

\* In the children list of an entry every subgroup entry comes before every
\* file entry.
SubgroupsBeforeFiles(entry, fileIds) ==
    LET ch == ChildTokens(entry)
    IN \A i, j \in DOMAIN ch :
           (ch[i].id \in fileIds /\ ch[j].id \notin fileIds) => j < i

\* C12: the group of the scanned subtree is rendered first, every other
\* group of the tree exactly once, each group directly followed by all of
\* its descendants (depth-first pre-order), and every rendered children list
\* holds its subgroup entries before its file entries.
C12_DepthFirst ==
    pc = "build" =>
        LET gs      == AllGroups(files)
            fileIds == {files[i].file_id : i \in DOMAIN files}
            rend    == Rendered(content)
            gid     == [g \in gs |-> GroupId(g)]
            pos     == [g \in gs |-> {k \in DOMAIN rend : rend[k].gid = gid[g]}]
            desc    == [g \in gs |-> Descendants(files, g)]
        IN /\ Len(rend) = Cardinality(gs)
           /\ rend[1].gid = FIXED.soju_group
           /\ \A g \in gs :
                  /\ Cardinality(pos[g]) = 1
                  /\ LET k == CHOOSE k \in pos[g] : TRUE
                     IN UNION {pos[h] : h \in desc[g]}
                            = (k + 1)..(k + Cardinality(desc[g]))
           /\ \A k \in DOMAIN rend : SubgroupsBeforeFiles(rend[k], fileIds)

\* A manifest where a group with a subgroup is followed by a sibling, so
\* that depth-first and level order differ, and where a group holds both a
\* subgroup and a file.
C12_Witness ==
    /\ pc = "build"
    /\ \E g, h \in AllGroups(files) :
           /\ g # <<>>
           /\ Descendants(files, g) # {}
           /\ h \notin Descendants(files, g)
           /\ \E k \in Positions(content, g), l \in Positions(content, h) :
                  l > k + Cardinality(Descendants(files, g))
    /\ \E k \in DOMAIN Rendered(content) :
           LET ids == ChildIds(Rendered(content)[k])
               fileIds == {files[i].file_id : i \in DOMAIN files}
           IN ids \cap fileIds # {} /\ ids \ fileIds # {}

\* uuid_for gives distinct identifiers to the distinct role:path strings of
\* a file list: its files, its build entries and its groups.
IdsDistinct(fl) ==
    LET gs == AllGroups(fl) \ {<<>>}
    IN /\ \A i, j \in DOMAIN fl :
              /\ i # j => fl[i].file_id # fl[j].file_id /\ fl[i].build_id # fl[j].build_id
              /\ fl[i].file_id # fl[j].build_id
       /\ \A g, h \in gs : g # h => GroupId(g) # GroupId(h)
       /\ \A g \in gs : \A i \in DOMAIN fl :
              GroupId(g) \notin {fl[i].file_id, fl[i].build_id}

\* C13: in a manifest generated from files of pairwise distinct paths whose
\* identifiers are distinct, every build identifier of the build-phase list
\* is declared once in the build-membership list, with the reference
\* identifier of the same file as fileRef; every reference identifier is
\* declared once in the file-reference list and is a child of exactly one
\* group, the group of the file; and every subgroup identifier listed as a
\* child is declared as exactly one group entry and has exactly one parent.
C13_ReferentialIntegrity ==
    (pc = "build" /\ IdsDistinct(files)
       /\ \A i, j \in DOMAIN files : i # j => files[i].path # files[j].path) =>
        LET c       == content
            groups  == c.group_lines
            fileIds == {files[i].file_id : i \in DOMAIN files}
            kids    == [k \in DOMAIN groups |-> ChildTokens(groups[k])]
            \* the (group entry, child position) pairs that list identifier id
            listed(id) == {<<k, j>> \in UNION {{<<k, j>> : j \in DOMAIN kids[k]} :
                                                 k \in DOMAIN groups} :
                               kids[k][j].id = id}
        IN /\ \A s \in DOMAIN c.source_files :
                  \E i \in DOMAIN files :
                      /\ c.source_files[s].id = files[i].build_id
                      /\ Count(c.build_lines, LAMBDA e : e.id = files[i].build_id) = 1
                      /\ \A b \in DOMAIN c.build_lines :
                             c.build_lines[b].id = files[i].build_id =>
                                 /\ c.build_lines[b].refKey = "fileRef"
                                 /\ c.build_lines[b].ref = files[i].file_id
           /\ \A i \in DOMAIN files :
                  /\ Count(c.ref_lines, LAMBDA e : e.id = files[i].file_id) = 1
                  /\ Cardinality(listed(files[i].file_id)) = 1
                  /\ \A kj \in listed(files[i].file_id) :
                         groups[kj[1]].gid = GroupId(files[i].group)
           /\ \A k \in 3..Len(groups) : \A j \in DOMAIN kids[k] :
                  kids[k][j].id \notin fileIds =>
                      /\ Count(groups, LAMBDA e : e.gid = kids[k][j].id) = 1
                      /\ Cardinality(listed(kids[k][j].id)) = 1

C13_Witness ==
    /\ pc = "build"
    /\ IdsDistinct(files)
    /\ Len(files) >= 3
    /\ \E i, j \in DOMAIN files : i # j /\ files[i].name = files[j].name
    /\ \E i \in DOMAIN files : Cardinality(DOMAIN Prefixes(files[i].group)) = 3

---------------------------------------------------------------------------
(* Scripts/add-files-to-xcode.py *)

(***************************************************************************)
(* The text of the project file is a sequence of pieces in the order the   *)
(* text holds them: text the script neither searches for nor writes, kept  *)
(* character by character; the four section markers; the lines the script  *)
(* writes; and the blocks its patterns match.  The index of a piece stands *)
(* for the offset of its first character, -1 for the result of a search    *)
(* that found nothing.  The fixed words of a marker, a line or a block     *)
(* hold no file name of files_to_add; the names a piece holds are kept in  *)
(* its text and in its items.                                              *)
(***************************************************************************)

ShortcutsGridViewSwift ==
    <<"S", "h", "o", "r", "t", "c", "u", "t", "s", "G", "r", "i", "d", "V", "i", "e", "w", ".", "s", "w", "i", "f", "t">>

ShortcutViewSwift ==
    <<"S", "h", "o", "r", "t", "c", "u", "t", "V", "i", "e", "w", ".", "s", "w", "i", "f", "t">>

AddProgramViewSwift ==
    <<"A", "d", "d", "P", "r", "o", "g", "r", "a", "m", "V", "i", "e", "w", ".", "s", "w", "i", "f", "t">>

WorkspaceCreationViewSwift ==
    <<"W", "o", "r", "k", "s", "p", "a", "c", "e", "C", "r", "e", "a", "t", "i", "o", "n", "V", "i", "e", "w", ".", "s", "w", "i", "f", "t">>

LogSettingsViewSwift ==
    <<"L", "o", "g", "S", "e", "t", "t", "i", "n", "g", "s", "V", "i", "e", "w", ".", "s", "w", "i", "f", "t">>

Workspace ==
    <<"W", "o", "r", "k", "s", "p", "a", "c", "e">>

Creation ==
    <<"C", "r", "e", "a", "t", "i", "o", "n">>

\* The comment line that opens a project file, ended by a carriage return
\* and a line feed.
Header ==
    <<"/", "/", " ", "!", "$", "*", "U", "T", "F", "8", "*", "$", "!", "CR", "LF">>

None == "None"

Text(t) == [kind |-> "text", text |-> t, id |-> "", ref |-> "", items |-> <<>>]

\* One of the lines /* Begin ... section */ and /* End ... section */.
Marker(k) == [kind |-> k, text |-> <<>>, id |-> "", ref |-> "", items |-> <<>>]

\* An entry of a children list or of a files list: an identifier and the
\* name in its comment.
Entry(id, filename) == [id |-> id, text |-> filename]

\* The line file_ref of add_file_reference.
FileReferenceLine(file_uuid, filename) ==
    [kind |-> "file_ref", text |-> filename, id |-> file_uuid, ref |-> "", items |-> <<>>]

\* The line build_file of add_build_file.
BuildFileLine(build_uuid, filename, file_uuid) ==
    [kind |-> "build_file", text |-> filename, id |-> build_uuid, ref |-> file_uuid,
     items |-> <<>>]

\* Text that the pattern of add_to_group matches for the group called name:
\* from the identifier to the end of the children list.
GroupBlock(uuid, name, children) ==
    [kind |-> "group", text |-> name, id |-> uuid, ref |-> "", items |-> children]

\* Text that the pattern of add_to_sources_build_phase matches: from the
\* identifier to the end of the files list.
SourcesBlock(uuid, entries) ==
    [kind |-> "sources", text |-> <<>>, id |-> uuid, ref |-> "", items |-> entries]

\* sub in s, for str and a sub that is not empty.
Contains(s, sub) ==
    \E i \in 0..(Len(s) - Len(sub)) :
        s[i + 1] = sub[1] /\ SubSeq(s, i + 1, i + Len(sub)) = sub

\* filename in the text of one piece.
Mentions(piece, filename) ==
    \/ Contains(piece.text, filename)
    \/ \E j \in DOMAIN piece.items : Contains(piece.items[j].text, filename)

\* content.find(marker, start): the first piece of that kind from start on.
Find(text, kind, start) ==
    IF \E i \in start..Len(text) : text[i].kind = kind
    THEN CHOOSE i \in start..Len(text) :
             text[i].kind = kind /\ \A j \in start..(i - 1) : text[j].kind # kind
    ELSE -1

\* content[:pos] + line + content[pos:].  A pos of -1 is the offset of the
\* last character of the text, which every project file here keeps in a
\* piece of plain text.
InsertAt(text, pos, line) ==
    IF pos # -1
    THEN SubSeq(text, 1, pos - 1) \o <<line>> \o SubSeq(text, pos, Len(text))
    ELSE LET last == text[Len(text)]
             head == SubSeq(last.text, 1, Len(last.text) - 1)
             char == <<last.text[Len(last.text)]>>
         IN CASE last.kind = "text" ->
                    SubSeq(text, 1, Len(text) - 1)
                        \o (IF head = <<>> THEN <<>> ELSE <<Text(head)>>)
                        \o <<line, Text(char)>>

\* content.replace(old, new)
Replace(text, old, new) ==
    [i \in DOMAIN text |-> IF text[i] = old THEN new ELSE text[i]]

\* The universal newlines of read_text: a carriage return, with the line
\* feed that follows it if one does, reads as one line feed.
TranslateNewlines(s) ==
    LET marked == [i \in DOMAIN s |->
                      IF s[i] = "CR" THEN "LF"
                      ELSE IF s[i] = "LF" /\ i > 1 /\ s[i - 1] = "CR" THEN "dropped"
                      ELSE s[i]]
    IN SelectSeq(marked, LAMBDA c : c # "dropped")

\* project_file.read_text(encoding='utf-8')
read_text(file) ==
    [i \in DOMAIN file |->
        IF file[i].kind = "text"
        THEN [file[i] EXCEPT !.text = TranslateNewlines(@)]
        ELSE file[i]]

\* The identifiers generate_uuid may return: two of the 2^96.
Uuids == {"3F2504E04F8941D39A0C0305", "9B2E4C6A8D0F4A1C8E3B5D7F"}

\* Identifiers of the blocks a project file holds before the script runs.
BlockIds ==
    [workspace |-> "A1B2C3D4E5F60718293A4B5C",
     creation  |-> "B1B2C3D4E5F60718293A4B5C",
     settings  |-> "C1B2C3D4E5F60718293A4B5C",
     sources   |-> "D1B2C3D4E5F60718293A4B5C"]

find_group_uuid(text, group_name) ==
    IF \E i \in DOMAIN text : text[i].kind = "group" /\ text[i].text = group_name
    THEN text[CHOOSE i \in DOMAIN text :
                  /\ text[i].kind = "group" /\ text[i].text = group_name
                  /\ \A j \in 1..(i - 1) :
                         ~(text[j].kind = "group" /\ text[j].text = group_name)].id
    ELSE None

file_exists_in_project(text, filename) ==
    \E i \in DOMAIN text : Mentions(text[i], filename)

\* file_uuid is the value generate_uuid returned at line 27.
add_file_reference(text, filename, file_uuid) ==
    LET section_start == Find(text, "BeginFileReference", 1)
    IN IF section_start = -1 THEN [content |-> text, uuid |-> None]
       ELSE LET section_end == Find(text, "EndFileReference", section_start)
                insert_pos  == section_end
            IN [content |-> InsertAt(text, insert_pos,
                                     FileReferenceLine(file_uuid, filename)),
                uuid    |-> file_uuid]

\* build_uuid is the value generate_uuid returned at line 47.
add_build_file(text, filename, file_uuid, build_uuid) ==
    LET section_start == Find(text, "BeginBuildFile", 1)
    IN IF section_start = -1 THEN [content |-> text, uuid |-> None]
       ELSE LET section_end == Find(text, "EndBuildFile", section_start)
                insert_pos  == section_end
            IN [content |-> InsertAt(text, insert_pos,
                                     BuildFileLine(build_uuid, filename, file_uuid)),
                uuid    |-> build_uuid]

add_to_group(text, group_name, filename, file_uuid) ==
    LET group_uuid == find_group_uuid(text, group_name)
    IN IF group_uuid = None THEN text
       ELSE LET matches == {i \in DOMAIN text :
                               /\ text[i].kind = "group"
                               /\ text[i].id = group_uuid
                               /\ text[i].text = group_name}
                group_text == text[CHOOSE i \in matches : \A j \in matches : i <= j]
                new_group_text ==
                    [group_text EXCEPT !.items = Append(@, Entry(file_uuid, filename))]
            IN Replace(text, group_text, new_group_text)

add_to_sources_build_phase(text, filename, build_uuid) ==
    LET matches == {i \in DOMAIN text : text[i].kind = "sources"}
    IN IF matches = {} THEN text
       ELSE LET phase_text == text[CHOOSE i \in matches : \A j \in matches : i <= j]
                new_phase_text ==
                    [phase_text EXCEPT !.items = Append(@, Entry(build_uuid, filename))]
            IN Replace(text, phase_text, new_phase_text)

add_file_to_project(text, filename, group_name, file_uuid, build_uuid) ==
    IF file_exists_in_project(text, filename)
    THEN [content |-> text, success |-> TRUE]
    ELSE LET r1 == add_file_reference(text, filename, file_uuid)
         IN IF r1.uuid = None THEN [content |-> r1.content, success |-> FALSE]
            ELSE LET r2 == add_build_file(r1.content, filename, r1.uuid, build_uuid)
                 IN IF r2.uuid = None THEN [content |-> r2.content, success |-> FALSE]
                    ELSE LET c3 == add_to_group(r2.content, group_name, filename, r1.uuid)
                             c4 == add_to_sources_build_phase(c3, filename, r2.uuid)
                         IN [content |-> c4, success |-> TRUE]

files_to_add ==
    <<[filename |-> ShortcutsGridViewSwift,     group |-> Workspace],
      [filename |-> ShortcutViewSwift,          group |-> Workspace],
      [filename |-> AddProgramViewSwift,        group |-> Creation],
      [filename |-> WorkspaceCreationViewSwift, group |-> Creation],
      [filename |-> LogSettingsViewSwift,       group |-> Settings]>>

\* The sets of files of files_to_add a project file names in its opening
\* comment before the script runs: none, the last three, all.
KnownSets == {{}, {3, 4, 5}, {1, 2, 3, 4, 5}}

RECURSIVE KnownText(_, _)
KnownText(known, k) ==
    IF k > Len(files_to_add) THEN <<>>
    ELSE (IF k \in known THEN <<" ">> \o files_to_add[k].filename ELSE <<>>)
             \o KnownText(known, k + 1)

\* The ways a project file ends: in a line feed, or in a comment that names
\* a file and that no line feed ends.
Endings ==
    {<<"LF">>,
     <<"/", "/", " ">> \o ShortcutsGridViewSwift,
     <<"/", "/", " ">> \o LogSettingsViewSwift}

\* A project file: its opening comment, the section markers that opt
\* selects, the three groups and the sources phase if opt selects them, its
\* ending.
ProjectText(opt) ==
    <<Text(<<"/", "/">> \o KnownText(opt.known, 1) \o <<"LF">> \o Header)>>
        \o (IF opt.beginBuild THEN <<Marker("BeginBuildFile")>> ELSE <<>>)
        \o (IF opt.endBuild THEN <<Marker("EndBuildFile")>> ELSE <<>>)
        \o (IF opt.beginRef THEN <<Marker("BeginFileReference")>> ELSE <<>>)
        \o (IF opt.endRef THEN <<Marker("EndFileReference")>> ELSE <<>>)
        \o (IF opt.blocks
            THEN <<GroupBlock(BlockIds.workspace, Workspace, <<>>),
                   GroupBlock(BlockIds.creation, Creation, <<>>),
                   GroupBlock(BlockIds.settings, Settings, <<>>),
                   SourcesBlock(BlockIds.sources, <<>>)>>
            ELSE <<>>)
        \o <<Text(opt.ending)>>

ProjectFiles ==
    {ProjectText(opt) :
        opt \in [beginBuild : BOOLEAN, endBuild : BOOLEAN, beginRef : BOOLEAN,
                 endRef : BOOLEAN, blocks : BOOLEAN,
                 known : KnownSets, ending : Endings]}

\* The project file is any of ProjectFiles, or absent; sync-project.py does
\* not run.
InitAdd ==
    /\ sojuExists = TRUE
    /\ fs = {}
    /\ projDirExists = TRUE
    /\ manifest = HandWritten
    /\ syncedTree = NotSynced
    /\ pc = "idle"
    /\ files = <<>>
    /\ content = NoContent
    /\ before = NoFile
    /\ rerun = FALSE
    /\ writes = 0
    /\ buildRan = FALSE
    /\ returncode = 0
    /\ status = 0
    /\ projectFile \in {[exists |-> TRUE, text |-> t] : t \in ProjectFiles} \cup {NoProject}
    /\ addPc = "idle"
    /\ addContent = <<>>
    /\ original_content = <<>>
    /\ addIndex = 1
    /\ all_success = TRUE
    /\ addWrites = 0
    /\ addStatus = 0
    /\ runs = 0

\* Lines 146-156 and 168: main() ends with status 1 when project_file is
\* missing, and reads it otherwise.
ReadProject ==
    /\ addPc = "idle"
    /\ runs < MaxRuns
    /\ IF ~projectFile.exists
       THEN /\ addStatus' = 1
            /\ addPc' = "done"
            /\ runs' = runs + 1
            /\ UNCHANGED <<addContent, original_content, all_success>>
       ELSE /\ addContent' = read_text(projectFile.text)
            /\ original_content' = addContent'
            /\ all_success' = TRUE
            /\ addPc' = "loop"
            /\ UNCHANGED <<addStatus, runs>>
    /\ UNCHANGED <<projectFile, addIndex, addWrites, syncVars>>

\* Lines 170-173: one iteration of the loop over files_to_add.
AddNextFile ==
    /\ addPc = "loop"
    /\ addIndex <= Len(files_to_add)
    /\ \E file_uuid, build_uuid \in Uuids :
           \E r \in {add_file_to_project(addContent, files_to_add[addIndex].filename,
                                         files_to_add[addIndex].group,
                                         file_uuid, build_uuid)} :
               /\ addContent' = r.content
               /\ all_success' = (all_success /\ r.success)
    /\ addIndex' = addIndex + 1
    /\ UNCHANGED <<projectFile, addPc, original_content, addWrites, addStatus, runs,
                   syncVars>>

\* Lines 176-180: main() saves the content if it changed.  write_text
\* writes each line feed as it is.
SaveProject ==
    /\ addPc = "loop"
    /\ addIndex > Len(files_to_add)
    /\ \/ /\ addContent # original_content
          /\ projectFile' = [exists |-> TRUE, text |-> addContent]
          /\ addWrites' = addWrites + 1
       \/ /\ addContent = original_content
          /\ UNCHANGED <<projectFile, addWrites>>
    /\ addPc' = "exit"
    /\ UNCHANGED <<addContent, original_content, addIndex, all_success, addStatus,
                   runs, syncVars>>

\* Line 182: sys.exit(0 if all_success else 1).
ExitAdd ==
    /\ addPc = "exit"
    /\ addStatus' = IF all_success THEN 0 ELSE 1
    /\ addPc' = "done"
    /\ runs' = runs + 1
    /\ UNCHANGED <<projectFile, addContent, original_content, addIndex, all_success,
                   addWrites, syncVars>>

\* The process is gone; its locals with it.
TerminateAdd ==
    /\ addPc = "done"
    /\ addPc' = "idle"
    /\ addContent' = <<>>
    /\ original_content' = <<>>
    /\ addIndex' = 1
    /\ all_success' = TRUE
    /\ addWrites' = 0
    /\ addStatus' = 0
    /\ UNCHANGED <<projectFile, runs, syncVars>>

NextAdd ==
    \/ ReadProject
    \/ AddNextFile
    \/ SaveProject
    \/ ExitAdd
    \/ TerminateAdd

SpecAdd == InitAdd /\ [][NextAdd]_vars

\* C14: add_file_to_project returns the content unchanged, with success,
\* whenever the file name already occurs in it; and once one run of the
\* add-files script has ended, the next run ends its loop with the content
\* it read and has written nothing.
C14_SecondRunChangesNothing ==
    /\ addPc \in {"loop", "exit"} =>
           \A k \in DOMAIN files_to_add : \A file_uuid, build_uuid \in Uuids :
               file_exists_in_project(addContent, files_to_add[k].filename) =>
                   add_file_to_project(addContent, files_to_add[k].filename,
                                       files_to_add[k].group, file_uuid, build_uuid)
                       = [content |-> addContent, success |-> TRUE]
    /\ (addPc = "exit" /\ runs >= 1) =>
           /\ addContent = original_content
           /\ addWrites = 0

====
